---- MODULE Spec2Model ----
(***************************************************************************)
(* Repository / SoftDeleteRepository / UnitOfWork / Service of the         *)
(* data-access layer (app/core/database/repositories.py, uow.py and        *)
(* app/core/services.py), as a state machine over one relational table.    *)
(*                                                                         *)
(* Python values are modelled as options: None is the empty tuple and a    *)
(* value v is the one-element tuple <<v>>.  A filter / data mapping is a   *)
(* function from a set of column names to such options (a Python dict).    *)
(* The result of an operation is a sequence of rows: <<>> is the not-found *)
(* sentinel (None), <<r>> a single instance, a longer sequence a list.     *)
(*                                                                         *)
(* Three specifications share the repository operators:                    *)
(*   Spec        one UnitOfWork instance entered scope after scope, every  *)
(*               repository and Service call inside the scope, from an     *)
(*               empty table;                                              *)
(*   SpecStored  the same scopes creating and reading, from every table    *)
(*               earlier runs may have left;                               *)
(*   SpecScopes  several UnitOfWork instances entered, re-entered and      *)
(*               exited in any interleaving, with get_repository callable  *)
(*               at any time and calls made through the repositories it    *)
(*               handed out.                                               *)
(***************************************************************************)
EXTENDS Integers, Sequences, FiniteSets, TLC

\* ------------------------------------------------------------------ bounds
\* Largest identity the table's autoincrement hands out.
MaxRows == 2
\* Number of sessions the session factory hands out (scope entries).
MaxSessions == 2
\* Number of repository calls made inside one scope.
MaxOps == 2
\* Largest value of the clock collaborator (get_utc_now).
MaxTime == 1
\* Number of UnitOfWork instances in use at once (one per request).
MaxUoWs == 2
\* Number of repositories get_repository hands out.
MaxHandles == 2

Names == {"a"}
Times == 1..MaxTime

\* ------------------------------------------------------------------ values
NULL == <<>>
Some(v) == <<v>>
NONE == <<>>

NoSession == 0

VARIABLES
    store,        \* committed rows of the table
    view,         \* rows as the current session's transaction sees them
    nextId,       \* next identity of the table's autoincrement
    repo_type,    \* Service.repo_type: "Base" or "SoftDelete"
    pc,           \* "idle": outside the `async with` scope, "body": inside
    sessions,     \* state of every session the factory has handed out
    uow_session,  \* UnitOfWork.session (NoSession before the first entry)
    entry_store,  \* history: store when the current scope was entered
    aexit,        \* history: what the last __aexit__ was given and did
    ops,          \* number of repository calls made in the current scope
    last,         \* history: the last repository call, its query and result
    uows,         \* several UnitOfWork instances: each one's self.session
    pool,         \* the sessions the factory has handed out to them
    handles,      \* the repositories get_repository has handed out
    used          \* history: the repository each call was made through

vars == <<store, view, nextId, repo_type, pc, sessions, uow_session,
          entry_store, aexit, ops, last, uows, pool, handles, used>>

\* The state of one UnitOfWork used scope after scope.
unit_vars == <<view, repo_type, pc, sessions, uow_session, entry_store, aexit>>
\* The state of several UnitOfWork instances used side by side.
scopes_vars == <<uows, pool, handles, used>>

\* ------------------------------------------------------------------ table
OptNames == {NULL} \cup {Some(n) : n \in Names}
OptTimes == {NULL} \cup {Some(t) : t \in Times}

\* One row of the entity's table: identity, a caller-settable column, the
\* soft-delete flag and stamp, and the creation timestamp.
Row == [id : 1..MaxRows, name : OptNames, is_deleted : BOOLEAN,
        deleted_at : OptTimes, created_at : Times]

Ids(rows) == {r.id : r \in rows}

\* The value of column k of row r, as an option.
Col(r, k) ==
    CASE k = "id" -> Some(r.id)
      [] k = "name" -> r.name
      [] k = "is_deleted" -> Some(r.is_deleted)
      [] k = "deleted_at" -> r.deleted_at
      [] k = "created_at" -> Some(r.created_at)

\* ------------------------------------------------------------------ dicts
EmptyDict == <<>>
Merge(f, g) ==
    [k \in (DOMAIN f) \cup (DOMAIN g) |-> IF k \in DOMAIN f THEN f[k] ELSE g[k]]
\* The dicts with at most the key k, its value drawn from V.
Entry(k, V) == {EmptyDict} \cup {[j \in {k} |-> v] : v \in V}

\* **filters of a call: nothing, an id or a name (possibly None), and with it
\* possibly is_deleted (possibly None).  MaxRows + 1 is an identity no row has.
Filters ==
    {Merge(a, c) :
        a \in Entry("id", {Some(i) : i \in 1..(MaxRows + 1)})
                \cup Entry("name", OptNames),
        c \in Entry("is_deleted", {NULL, Some(TRUE), Some(FALSE)})}

\* data of create: what CreateSchema.model_dump() carries.
CreateData == Entry("name", OptNames)
\* data of update: the explicitly set fields of an UpdateSchema (none, the
\* name, or the flag).
UpdateData ==
    Entry("name", OptNames) \cup Entry("is_deleted", {Some(TRUE), Some(FALSE)})

\* dict.setdefault(k, v)
setdefault(d, k, v) == IF k \in DOMAIN d THEN d ELSE Merge(d, [j \in {k} |-> v])

\* _clean_filters testing truth instead of None (`if v`): False is dropped too.
_clean_filters_truthy(filters, allow_null) ==
    IF allow_null
    THEN filters
    ELSE [k \in {j \in DOMAIN filters :
                    /\ filters[j] # NULL
                    /\ ~(j = "is_deleted" /\ filters[j] = Some(FALSE))}
            |-> filters[k]]

\* BaseRepository._clean_filters
_clean_filters(filters, allow_null) ==
    IF allow_null
    THEN filters
    ELSE [k \in {j \in DOMAIN filters : filters[j] # NULL} |-> filters[k]]

\* select(model).filter_by(**filters), run in the session's transaction:
\* a None value is an IS NULL test.
filter_by(rows, filters) ==
    {r \in rows : \A k \in DOMAIN filters : Col(r, k) = filters[k]}

\* ------------------------------------------------------------------ Init
NoExit == [exc |-> FALSE, calls |-> <<>>, raised |-> FALSE]

\* UnitOfWork.__init__ of every instance: self.session = None; no session
\* made, no repository handed out.
UoWs == 1..MaxUoWs
NoScopes ==
    /\ uows = [u \in UoWs |-> [session |-> NoSession, scopes |-> 0, entries |-> 0]]
    /\ pool = <<>>
    /\ handles = <<>>
    /\ used = <<>>
Call(op, query, result) == [op |-> op, query |-> query, result |-> result]

Init ==
    /\ store = {}
    /\ view = {}
    /\ nextId = 1
    /\ repo_type \in {"Base", "SoftDelete"}
    /\ pc = "idle"
    /\ sessions = <<>>
    /\ uow_session = NoSession
    /\ entry_store = {}
    /\ aexit = NoExit
    /\ ops = 0
    /\ last = Call("init", EmptyDict, NONE)
    /\ NoScopes

\* ------------------------------------------------------------------ UnitOfWork
\* UnitOfWork.__aenter__: a new session from the factory; its transaction
\* starts from the committed rows.
UnitOfWork_aenter ==
    /\ pc = "idle"
    /\ Len(sessions) < MaxSessions
    /\ sessions' = Append(sessions, "open")
    /\ uow_session' = Len(sessions) + 1
    /\ view' = store
    /\ entry_store' = store
    /\ pc' = "body"
    /\ aexit' = NoExit
    /\ ops' = 0
    /\ last' = Call("aenter", EmptyDict, NONE)
    /\ UNCHANGED <<store, nextId, repo_type>>
    /\ UNCHANGED scopes_vars

\* __aexit__ with its test inverted (`if exc_type is not None: commit`).
aexit_calls_inverted(exc, fails) ==
    <<IF exc THEN "commit" ELSE "rollback">>
        \o (IF fails THEN <<>> ELSE <<"close">>)

\* The session calls __aexit__ makes, in order, given whether the scope body
\* raised (exc_type is not None) and whether the store fails the commit or
\* rollback (a raise or a cancellation at that await ends __aexit__).
aexit_calls(exc, fails) ==
    <<IF exc THEN "rollback" ELSE "commit">>
        \o (IF fails THEN <<>> ELSE <<"close">>)

\* UnitOfWork.__aexit__
UnitOfWork_aexit(exc, fails) ==
    LET calls == aexit_calls(exc, fails)
        has(c) == \E i \in 1..Len(calls) : calls[i] = c
        committed == calls[1] = "commit" /\ ~fails
        rolled == calls[1] = "rollback" /\ ~fails
    IN  /\ pc = "body"
        /\ store' = IF committed THEN view ELSE store
        /\ view' = IF rolled THEN store ELSE view
        /\ sessions' = [sessions EXCEPT
                          ![uow_session] = IF has("close") THEN "closed" ELSE @]
        /\ aexit' = [exc |-> exc, calls |-> calls, raised |-> exc \/ fails]
        /\ pc' = "idle"
        /\ last' = Call("aexit", EmptyDict, NONE)
        /\ UNCHANGED <<nextId, repo_type, uow_session, entry_store, ops>>
        /\ UNCHANGED scopes_vars

\* ------------------------------------------------------------------ BaseRepository
\* A repository works on self.session: db.view is the table as the session's
\* transaction sees it (its own flushed and autoflushed changes included),
\* db.store the committed table.
\*
\* What one repository call leaves behind: the committed table, the
\* session's view of it, the filters its query was constrained with, and the
\* value it returns.  A call whose query has several first rows, or which
\* reads the clock, has several outcomes.
Outcome(st, vw, query, result) ==
    [store |-> st, view |-> vw, query |-> query, result |-> result]

\* await self.session.commit() when commit is set: the view becomes the table.
commit_if(commit, db, vw) == IF commit THEN vw ELSE db.store

\* The clock never runs behind a creation timestamp it has already given.
ClockNow(rows) == {t \in Times : \A r \in rows : r.created_at <= t}

\* The next identity of the autoincrement: above every identity handed out.
NextIdentity(db) == db.nextId

\* self.model(**data): the columns data does not set take their defaults.
NewInstance(data, id, t) ==
    [id |-> id,
     name |-> IF "name" \in DOMAIN data THEN data["name"] ELSE NULL,
     is_deleted |-> FALSE,
     deleted_at |-> NULL,
     created_at |-> t]

\* for key, value in data.items(): setattr(instance, key, value)
setattrs(instance, data) ==
    [instance EXCEPT
        !.name = IF "name" \in DOMAIN data THEN data["name"] ELSE @,
        !.is_deleted = IF "is_deleted" \in DOMAIN data
                       THEN data["is_deleted"][1] ELSE @]

\* order_by(created_at) without .desc(): the oldest row first.
order_by_created_at_asc(rows) ==
    {s \in [1..Cardinality(rows) -> rows] :
        /\ \A i, j \in DOMAIN s : i # j => s[i] # s[j]
        /\ \A i, j \in DOMAIN s : i < j => s[i].created_at <= s[j].created_at}

\* query.order_by(created_at.desc()): the rows in every order the store may
\* give them, rows of equal creation timestamp in any order.
order_by_created_at_desc(rows) ==
    {s \in [1..Cardinality(rows) -> rows] :
        /\ \A i, j \in DOMAIN s : i # j => s[i] # s[j]
        /\ \A i, j \in DOMAIN s : i < j => s[i].created_at >= s[j].created_at}

\* create without the flush of its else branch: the instance stays pending
\* and is no row of the transaction yet.
BaseRepository_create_unflushed(db, data, commit) ==
    {LET vw == db.view \cup {NewInstance(data, NextIdentity(db), t)}
     IN  Outcome(commit_if(commit, db, vw), IF commit THEN vw ELSE db.view,
                 EmptyDict, <<NewInstance(data, NextIdentity(db), t)>>) :
        t \in ClockNow(db.view)}

\* BaseRepository.create: add, then commit + refresh, or flush.
BaseRepository_create(db, data, commit) ==
    {LET vw == db.view \cup {NewInstance(data, NextIdentity(db), t)}
     IN  Outcome(commit_if(commit, db, vw), vw, EmptyDict,
                 <<NewInstance(data, NextIdentity(db), t)>>) :
        t \in ClockNow(db.view)}

\* BaseRepository.get_single: the first row of the unordered query, which
\* is any matching row, or None.
BaseRepository_get_single(db, allow_null_filters, filters) ==
    LET query == _clean_filters(filters, allow_null_filters)
        found == filter_by(db.view, query)
    IN  IF found = {}
        THEN {Outcome(db.store, db.view, query, NONE)}
        ELSE {Outcome(db.store, db.view, query, <<instance>>) : instance \in found}

\* BaseRepository.get_list
BaseRepository_get_list(db, allow_null_filters, filters) ==
    LET query == _clean_filters(filters, allow_null_filters)
    IN  {Outcome(db.store, db.view, query, rows) :
            rows \in order_by_created_at_desc(filter_by(db.view, query))}

\* The attributes of the entity's model.
Columns == {"id", "name", "is_deleted", "deleted_at", "created_at"}

\* order_field of get_last_entry: the default, the identity, or a name the
\* model has no attribute of.
OrderFields == {"created_at", "id", "updated_at"}

\* getattr(self.model, order_field, None), else getattr(self.model, "id").
order_by_of(order_field) ==
    IF order_field \in Columns THEN order_field ELSE "id"

\* query.order_by(order_by.desc()).limit(1), then first(): a row no other
\* row of the query is above in the ordering column.
first_desc(rows, by) ==
    {r \in rows : \A q \in rows : Col(q, by)[1] <= Col(r, by)[1]}

\* get_last_entry cleaning its filters as its sibling methods do.
BaseRepository_get_last_entry_cleaned(db, order_field, filters) ==
    LET query == _clean_filters(filters, FALSE)
        found == filter_by(db.view, query)
    IN  IF found = {}
        THEN {Outcome(db.store, db.view, query, NONE)}
        ELSE {Outcome(db.store, db.view, query, <<instance>>) :
                 instance \in first_desc(found, order_by_of(order_field))}

\* BaseRepository.get_last_entry: filter_by(**filters) on the filters as
\* given (no _clean_filters).
BaseRepository_get_last_entry(db, order_field, filters) ==
    LET found == filter_by(db.view, filters)
    IN  IF found = {}
        THEN {Outcome(db.store, db.view, filters, NONE)}
        ELSE {Outcome(db.store, db.view, filters, <<instance>>) :
                 instance \in first_desc(found, order_by_of(order_field))}

\* BaseRepository.get_paginated_list: the same query, handed to paginate;
\* the page holds the rows in the query's order (the table is smaller than
\* a page).
BaseRepository_get_paginated_list(db, allow_null_filters, filters) ==
    LET query == _clean_filters(filters, allow_null_filters)
    IN  {Outcome(db.store, db.view, query, rows) :
            rows \in order_by_created_at_desc(filter_by(db.view, query))}

\* update with its commit moved out of `if instance:`.
BaseRepository_update_commit_outside(db, data, allow_null_filters, commit, filters) ==
    LET query == _clean_filters(filters, allow_null_filters)
        found == filter_by(db.view, query)
    IN  IF found = {}
        THEN {Outcome(commit_if(commit, db, db.view), db.view, query, NONE)}
        ELSE {LET vw == (db.view \ {instance}) \cup {setattrs(instance, data)}
              IN  Outcome(commit_if(commit, db, vw), vw, query,
                          <<setattrs(instance, data)>>) :
                 instance \in found}

\* BaseRepository.update
BaseRepository_update(db, data, allow_null_filters, commit, filters) ==
    LET query == _clean_filters(filters, allow_null_filters)
        found == filter_by(db.view, query)
    IN  IF found = {}
        THEN {Outcome(db.store, db.view, query, NONE)}
        ELSE {LET vw == (db.view \ {instance}) \cup {setattrs(instance, data)}
              IN  Outcome(commit_if(commit, db, vw), vw, query,
                          <<setattrs(instance, data)>>) :
                 instance \in found}

\* delete with session.delete moved out of `if commit:`: the removal is
\* staged in the session whatever commit is.
BaseRepository_delete_staged(db, commit, allow_null_filters, filters) ==
    LET query == _clean_filters(filters, allow_null_filters)
        found == filter_by(db.view, query)
    IN  IF found = {}
        THEN {Outcome(db.store, db.view, query, NONE)}
        ELSE {LET vw == db.view \ {instance}
              IN  Outcome(commit_if(commit, db, vw), vw, query, <<instance>>) :
                 instance \in found}

\* BaseRepository.delete: session.delete only under commit.
BaseRepository_delete(db, commit, allow_null_filters, filters) ==
    LET query == _clean_filters(filters, allow_null_filters)
        found == filter_by(db.view, query)
    IN  IF found = {}
        THEN {Outcome(db.store, db.view, query, NONE)}
        ELSE {LET vw == IF commit THEN db.view \ {instance} ELSE db.view
              IN  Outcome(commit_if(commit, db, vw), vw, query, <<instance>>) :
                 instance \in found}

\* ------------------------------------------------------------------ SoftDeleteRepository
\* filters["is_deleted"] = False: the default set over the caller's value.
active_forced(filters) ==
    Merge([j \in {"is_deleted"} |-> Some(FALSE)], filters)

\* filters.setdefault("is_deleted", False)
active_default(filters) == setdefault(filters, "is_deleted", Some(FALSE))

\* SoftDeleteRepository.get_single
SoftDeleteRepository_get_single(db, allow_null_filters, filters) ==
    BaseRepository_get_single(db, allow_null_filters, active_default(filters))

\* SoftDeleteRepository.get_list
SoftDeleteRepository_get_list(db, allow_null_filters, filters) ==
    BaseRepository_get_list(db, allow_null_filters, active_default(filters))

\* SoftDeleteRepository.get_last_entry
SoftDeleteRepository_get_last_entry(db, order_field, filters) ==
    BaseRepository_get_last_entry(db, order_field, active_default(filters))

\* SoftDeleteRepository.get_paginated_list
SoftDeleteRepository_get_paginated_list(db, allow_null_filters, filters) ==
    BaseRepository_get_paginated_list(db, allow_null_filters, active_default(filters))

\* SoftDeleteRepository.update
SoftDeleteRepository_update(db, data, allow_null_filters, commit, filters) ==
    BaseRepository_update(db, data, allow_null_filters, commit,
                          active_default(filters))

\* setattr(instance, "is_deleted", True); setattr(instance, "deleted_at", now)
soft_deleted(instance, now) ==
    [instance EXCEPT !.is_deleted = TRUE, !.deleted_at = Some(now)]

\* delete left to the base class, with the default filter only.
SoftDeleteRepository_delete_inherited(db, commit, allow_null_filters, filters) ==
    LET query == _clean_filters(active_default(filters), allow_null_filters)
        found == filter_by(db.view, query)
    IN  IF found = {}
        THEN {Outcome(db.store, db.view, query, NONE)}
        ELSE {LET vw == IF commit THEN db.view \ {instance} ELSE db.view
              IN  Outcome(commit_if(commit, db, vw), vw, query, <<instance>>) :
                 instance \in found}

\* SoftDeleteRepository.delete: flag and stamp the row, never remove it.
SoftDeleteRepository_delete(db, commit, allow_null_filters, filters) ==
    LET query == _clean_filters(active_default(filters), allow_null_filters)
        found == filter_by(db.view, query)
    IN  IF found = {}
        THEN {Outcome(db.store, db.view, query, NONE)}
        ELSE {LET vw == (db.view \ {c[1]}) \cup {soft_deleted(c[1], c[2])}
              IN  Outcome(commit_if(commit, db, vw), vw, query,
                          <<soft_deleted(c[1], c[2])>>) :
                 c \in found \X Times}

\* ------------------------------------------------------------------ calls
\* The repository uow.get_repository(self.repo_type) hands out: the method
\* that runs is the one of repo_type.
repository_get_single(db, allow_null_filters, filters) ==
    IF repo_type = "Base"
    THEN BaseRepository_get_single(db, allow_null_filters, filters)
    ELSE SoftDeleteRepository_get_single(db, allow_null_filters, filters)

repository_get_list(db, allow_null_filters, filters) ==
    IF repo_type = "Base"
    THEN BaseRepository_get_list(db, allow_null_filters, filters)
    ELSE SoftDeleteRepository_get_list(db, allow_null_filters, filters)

repository_get_last_entry(db, order_field, filters) ==
    IF repo_type = "Base"
    THEN BaseRepository_get_last_entry(db, order_field, filters)
    ELSE SoftDeleteRepository_get_last_entry(db, order_field, filters)

repository_get_paginated_list(db, allow_null_filters, filters) ==
    IF repo_type = "Base"
    THEN BaseRepository_get_paginated_list(db, allow_null_filters, filters)
    ELSE SoftDeleteRepository_get_paginated_list(db, allow_null_filters, filters)

repository_update(db, data, allow_null_filters, commit, filters) ==
    IF repo_type = "Base"
    THEN BaseRepository_update(db, data, allow_null_filters, commit, filters)
    ELSE SoftDeleteRepository_update(db, data, allow_null_filters, commit, filters)

repository_delete(db, commit, allow_null_filters, filters) ==
    IF repo_type = "Base"
    THEN BaseRepository_delete(db, commit, allow_null_filters, filters)
    ELSE SoftDeleteRepository_delete(db, commit, allow_null_filters, filters)

\* The soft-delete variant keeping the base class's default (commit = False).
default_commit_base == FALSE

\* The default of the commit parameter of update and delete.
default_commit == repo_type = "SoftDelete"

\* BaseService.delete: allow_null_filters is passed as the first positional
\* argument of the repository's delete(commit, allow_null_filters, **filters).
BaseService_delete(db, allow_null_filters, filters) ==
    repository_delete(db, allow_null_filters, FALSE, filters)

\* ------------------------------------------------------------------ Next
\* A repository call needs a repository, which the Service takes from
\* uow.get_repository inside the scope.
InScope == pc = "body" /\ ops < MaxOps

\* The session of the open scope and the table behind it.
DB == [store |-> store, view |-> view, nextId |-> nextId]

\* One call made inside the scope, with one of its outcomes.
Returns(op, o) ==
    /\ store' = o.store
    /\ view' = o.view
    /\ last' = Call(op, o.query, o.result)
    /\ ops' = ops + 1
    /\ UNCHANGED <<repo_type, pc, sessions, uow_session, entry_store, aexit>>
    /\ UNCHANGED scopes_vars

Enter == UnitOfWork_aenter

Exit == \E exc \in BOOLEAN, fails \in BOOLEAN : UnitOfWork_aexit(exc, fails)

Create ==
    /\ InScope
    /\ nextId <= MaxRows
    /\ \E data \in CreateData, commit \in BOOLEAN :
         \E o \in BaseRepository_create(DB, data, commit) : Returns("create", o)
    /\ nextId' = nextId + 1

GetSingle ==
    /\ InScope
    /\ \E allow_null_filters \in BOOLEAN, filters \in Filters :
         \E o \in repository_get_single(DB, allow_null_filters, filters) :
            Returns("get_single", o)
    /\ UNCHANGED nextId

GetList ==
    /\ InScope
    /\ \E allow_null_filters \in BOOLEAN, filters \in Filters :
         \E o \in repository_get_list(DB, allow_null_filters, filters) :
            Returns("get_list", o)
    /\ UNCHANGED nextId

GetLastEntry ==
    /\ InScope
    /\ \E order_field \in OrderFields, filters \in Filters :
         \E o \in repository_get_last_entry(DB, order_field, filters) :
            Returns("get_last_entry", o)
    /\ UNCHANGED nextId

GetPaginatedList ==
    /\ InScope
    /\ \E allow_null_filters \in BOOLEAN, filters \in Filters :
         \E o \in repository_get_paginated_list(DB, allow_null_filters, filters) :
            Returns("get_paginated_list", o)
    /\ UNCHANGED nextId

Update ==
    /\ InScope
    /\ \E data \in UpdateData, allow_null_filters \in BOOLEAN,
          commit \in BOOLEAN, filters \in Filters :
         \E o \in repository_update(DB, data, allow_null_filters, commit, filters) :
            Returns("update", o)
    /\ UNCHANGED nextId

Delete ==
    /\ InScope
    /\ \E commit \in BOOLEAN, allow_null_filters \in BOOLEAN, filters \in Filters :
         \E o \in repository_delete(DB, commit, allow_null_filters, filters) :
            Returns("delete", o)
    /\ UNCHANGED nextId

ServiceDelete ==
    /\ InScope
    /\ \E allow_null_filters \in BOOLEAN, filters \in Filters :
         \E o \in BaseService_delete(DB, allow_null_filters, filters) :
            Returns("delete", o)
    /\ UNCHANGED nextId

Next ==
    \/ Enter
    \/ Exit
    \/ Create
    \/ GetSingle
    \/ GetList
    \/ GetLastEntry
    \/ GetPaginatedList
    \/ Update
    \/ Delete
    \/ ServiceDelete

Spec == Init /\ [][Next]_vars

\* ------------------------------------------------------------------ stored tables
\* The program started on a table earlier runs have written: rows created
\* before the clock's first reading of this run (time 0) or at it, active or
\* soft deleted.
StoredTimes == 0..MaxTime

StoredRows(id) ==
    {[id |-> id, name |-> n, is_deleted |-> d # NULL, deleted_at |-> d,
      created_at |-> t] :
        n \in OptNames, d \in OptTimes, t \in StoredTimes}

\* The tables of at most MaxRows rows, their identities handed out in order.
StoredTables ==
    UNION {{{f[i] : i \in 1..n} :
               f \in {g \in [1..n -> UNION {StoredRows(i) : i \in 1..n}] :
                         \A i \in 1..n : g[i].id = i}} :
           n \in 0..MaxRows}

InitStored ==
    /\ store \in StoredTables
    /\ view = store
    /\ nextId = Cardinality(store) + 1
    /\ repo_type \in {"Base", "SoftDelete"}
    /\ pc = "idle"
    /\ sessions = <<>>
    /\ uow_session = NoSession
    /\ entry_store = store
    /\ aexit = NoExit
    /\ ops = 0
    /\ last = Call("init", EmptyDict, NONE)
    /\ NoScopes

\* Scopes that create rows and read the table back.
NextStored ==
    \/ Enter
    \/ Exit
    \/ Create
    \/ GetList
    \/ GetLastEntry

SpecStored == InitStored /\ [][NextStored]_vars

\* ------------------------------------------------------------------ several UnitOfWork instances
\* UnitOfWork instances used side by side (one per request, or one shared
\* by tasks that enter it while it is entered), every call of __aenter__,
\* __aexit__, get_repository and of a handed-out repository in any order.
\* A session is what the factory made: whether close() has been called on
\* it, the rows it has flushed and not committed, and the calls made on it.
NewSession == [state |-> "open", pending |-> {}, log |-> <<>>]

\* self.session_factory(): the factory makes a session of its own for
\* every call; the new session is the last of the pool.
session_factory(pl) == Append(pl, NewSession)

\* __aenter__ keeping the session the instance's class already holds
\* (`session` as a class attribute, set once and shared by the instances).
uow_aenter_shared(self) ==
    /\ Len(pool) < MaxSessions
    /\ pool' = IF pool = <<>> THEN session_factory(pool) ELSE pool
    /\ uows' = [uows EXCEPT ![self] = [session |-> Len(pool'),
                                       scopes |-> @.scopes + 1,
                                       entries |-> @.entries + 1]]
    /\ last' = Call("aenter", EmptyDict, NONE)
    /\ UNCHANGED <<store, nextId, ops, handles, used>>
    /\ UNCHANGED unit_vars

\* UnitOfWork.__aenter__ of instance self: self.session = a new session,
\* whatever self.session was.
uow_aenter(self) ==
    /\ Len(pool) < MaxSessions
    /\ pool' = session_factory(pool)
    /\ uows' = [uows EXCEPT ![self] = [session |-> Len(pool'),
                                       scopes |-> @.scopes + 1,
                                       entries |-> @.entries + 1]]
    /\ last' = Call("aenter", EmptyDict, NONE)
    /\ UNCHANGED <<store, nextId, ops, handles, used>>
    /\ UNCHANGED unit_vars

\* The session calls of __aexit__ applied to session s: commit writes the
\* rows it has flushed, rollback and close drop them; a commit or rollback
\* that fails leaves the rows and ends __aexit__.
session_after(s, calls, fails) ==
    [state |-> IF \E i \in 1..Len(calls) : calls[i] = "close"
               THEN "closed" ELSE s.state,
     pending |-> IF fails THEN s.pending ELSE {},
     log |-> s.log \o calls]

\* UnitOfWork.__aexit__ of instance self, on self.session as it is now.
uow_aexit(self, exc, fails) ==
    LET calls == aexit_calls(exc, fails)
        s == uows[self].session
        committed == calls[1] = "commit" /\ ~fails
    IN  /\ uows[self].scopes > 0
        /\ store' = IF committed THEN store \cup pool[s].pending ELSE store
        /\ pool' = [pool EXCEPT ![s] = session_after(@, calls, fails)]
        /\ uows' = [uows EXCEPT ![self].scopes = @ - 1]
        /\ last' = Call("aexit", EmptyDict, NONE)
        /\ UNCHANGED <<nextId, ops, handles, used>>
        /\ UNCHANGED unit_vars

\* What a session is when a repository is bound to it.
session_state(n) == IF n = NoSession THEN "missing" ELSE pool[n].state

\* The repository repo_type(self.session): the instance that made it, the
\* session it is bound to, and (history) the entry of the instance it was
\* made in, whether the instance was in a scope, and what the session was.
Repository(self) ==
    [uow |-> self,
     session |-> uows[self].session,
     entry |-> uows[self].entries,
     active |-> uows[self].scopes > 0,
     at |-> session_state(uows[self].session)]

\* get_repository opening a session of its own for every repository
\* (`repo_type(self.session_factory())`).
uow_get_repository_own_session(self) ==
    /\ Len(handles) < MaxHandles
    /\ Len(pool) < MaxSessions
    /\ pool' = session_factory(pool)
    /\ handles' = Append(handles, [Repository(self) EXCEPT
                                      !.session = Len(pool'), !.at = "open"])
    /\ last' = Call("get_repository", EmptyDict, NONE)
    /\ UNCHANGED <<store, nextId, ops, uows, used>>
    /\ UNCHANGED unit_vars

\* UnitOfWork.get_repository of instance self: a new repository on
\* self.session, whatever self.session is.
uow_get_repository(self) ==
    /\ Len(handles) < MaxHandles
    /\ handles' = Append(handles, Repository(self))
    /\ last' = Call("get_repository", EmptyDict, NONE)
    /\ UNCHANGED <<store, nextId, ops, uows, pool, used>>
    /\ UNCHANGED unit_vars

\* The table as the session of repository h sees it: the committed rows and
\* the rows the session has flushed.
HandleDB(h) ==
    [store |-> store,
     view |-> store \cup pool[h.session].pending,
     nextId |-> nextId]

\* A call through repository number i works when the repository has a
\* session (on None, self.session.execute raises AttributeError); a session
\* that was closed begins a new transaction when it is used again.
CanCall(i) ==
    /\ ops < MaxOps
    /\ handles[i].session # NoSession

\* One call made through repository number i, with one of its outcomes.
ReturnsTo(i, op, o) ==
    /\ store' = o.store
    /\ pool' = [pool EXCEPT ![handles[i].session].pending = o.view \ o.store]
    /\ last' = Call(op, o.query, o.result)
    /\ used' = Append(used, i)
    /\ ops' = ops + 1
    /\ UNCHANGED <<uows, handles>>
    /\ UNCHANGED unit_vars

\* **filters of the reads made through the repositories: nothing, or an id.
IdFilters == Entry("id", {Some(i) : i \in 1..(MaxRows + 1)})

EnterScope == \E self \in UoWs : uow_aenter(self)

ExitScope ==
    \E self \in UoWs, exc \in BOOLEAN, fails \in BOOLEAN :
        uow_aexit(self, exc, fails)

GetRepository == \E self \in UoWs : uow_get_repository(self)

RepositoryCreate ==
    /\ nextId <= MaxRows
    /\ \E i \in 1..Len(handles) :
         /\ CanCall(i)
         /\ \E data \in CreateData, commit \in BOOLEAN :
              \E o \in BaseRepository_create(HandleDB(handles[i]), data, commit) :
                 ReturnsTo(i, "create", o)
    /\ nextId' = nextId + 1

RepositoryGetSingle ==
    /\ \E i \in 1..Len(handles) :
         /\ CanCall(i)
         /\ \E allow_null_filters \in BOOLEAN, filters \in IdFilters :
              \E o \in repository_get_single(HandleDB(handles[i]),
                                             allow_null_filters, filters) :
                 ReturnsTo(i, "get_single", o)
    /\ UNCHANGED nextId

NextScopes ==
    \/ EnterScope
    \/ ExitScope
    \/ GetRepository
    \/ RepositoryCreate
    \/ RepositoryGetSingle

SpecScopes == Init /\ [][NextScopes]_vars

\* ------------------------------------------------------------------ claims
\* The step that leaves the scope.
ScopeExit == pc = "body" /\ pc' = "idle"
ExitHas(c) == \E i \in 1..Len(aexit.calls) : aexit.calls[i] = c
Exited == pc = "idle" /\ aexit.calls # <<>>

\* C1: a scope is atomic: when it exits, the table holds either every
\* mutation the scope made (the session's view) or none of them (the table
\* as it was on entry); and after a scope that raised, no row the scope
\* created is in the table.
C1_ScopeAtomic ==
    [][ScopeExit =>
         /\ store' = view \/ store' = entry_store
         /\ aexit'.exc => Ids(store') \subseteq Ids(entry_store)]_vars

\* C2: on scope exit the session is committed iff the body did not raise and
\* rolled back iff it did: exactly one of the two is attempted, never both.
C2_CommitXorRollback ==
    Exited =>
        /\ ExitHas("commit") <=> ~aexit.exc
        /\ ExitHas("rollback") <=> aexit.exc
        /\ ~(ExitHas("commit") /\ ExitHas("rollback"))
        /\ Cardinality({i \in 1..Len(aexit.calls) :
                          aexit.calls[i] \in {"commit", "rollback"}}) = 1

\* A second scope with pending changes was left by a raise and rolled back,
\* while the first one's rows stay committed.
C2_Witness ==
    /\ Exited
    /\ aexit.exc
    /\ aexit.calls = <<"rollback", "close">>
    /\ Len(sessions) = 2
    /\ store # {}
    /\ ops > 0

\* C3: the session a scope acquired is closed after the scope exits, on
\* every exit path, a failing commit or rollback included.
C3_SessionClosedOnExit ==
    (pc = "idle" /\ uow_session # NoSession) => sessions[uow_session] = "closed"

\* C4: when the commit of __aexit__ raises, the session is then rolled back
\* and closed, in this order, and the failure propagates.
C4_RollbackAfterFailedCommit ==
    (Exited /\ ~aexit.exc /\ aexit.raised) =>
        aexit.calls = <<"commit", "rollback", "close">>

\* What the caller of a repository call can see of its outcomes: the value
\* returned and the effect on the table and the session.
Visible(outcomes) ==
    {[store |-> o.store, view |-> o.view, result |-> o.result] : o \in outcomes}

\* C5: Service.delete(allow_null_filters, **filters) is the repository's
\* delete with the same allow_null_filters, the same filters and the
\* repository's default commit: the same results and the same effects.
C5_ServiceDeletePassThrough ==
    InScope =>
        \A allow_null_filters \in BOOLEAN, filters \in Filters :
            Visible(BaseService_delete(DB, allow_null_filters, filters))
                = Visible(repository_delete(DB, default_commit, allow_null_filters,
                                            filters))

\* The filters a repository cleans: the caller's, with the default of the
\* soft-delete variant set.
Given(filters) == IF repo_type = "Base" THEN filters ELSE active_default(filters)

\* query holds exactly the entries of filters that are not None, unchanged;
\* or, with allow_null, all of filters.
CleanedAs(query, filters, allow_null) ==
    IF allow_null
    THEN query = filters
    ELSE /\ DOMAIN query = {k \in DOMAIN filters : filters[k] # NULL}
         /\ \A k \in DOMAIN query : query[k] = filters[k]

\* C6: get_single, get_list, get_paginated_list, update and delete constrain
\* their query with exactly the entries of the filters that are not None
\* when allow_null_filters is false, and with the filters unchanged, None
\* entries included, when it is true.
C6_FilterCleaning ==
    InScope =>
        \A allow_null_filters \in BOOLEAN, filters \in Filters :
            \A o \in repository_get_single(DB, allow_null_filters, filters)
                  \cup repository_get_list(DB, allow_null_filters, filters)
                  \cup repository_get_paginated_list(DB, allow_null_filters, filters)
                  \cup UNION {repository_update(DB, data, allow_null_filters,
                                                commit, filters) :
                                data \in UpdateData, commit \in BOOLEAN}
                  \cup UNION {repository_delete(DB, commit, allow_null_filters,
                                                filters) : commit \in BOOLEAN} :
                CleanedAs(o.query, Given(filters), allow_null_filters)

HasNull(d) == \E k \in DOMAIN d : d[k] = NULL

\* A query that kept a None entry has run, on a table where dropping the
\* entry selects other rows than keeping it.
C6_Witness ==
    /\ pc = "body"
    /\ last.op \in {"get_single", "get_list", "get_paginated_list", "update", "delete"}
    /\ HasNull(last.query)
    /\ last.result = NONE
    /\ \E r \in filter_by(view, _clean_filters(last.query, FALSE)) : r.name # NULL

\* C7: the soft delete is idempotent: of two SoftDeleteRepository.delete calls
\* with the same filters, matching exactly one active row, the first leaves
\* the row with is_deleted = true, and the second returns None and changes
\* nothing.
C7_SoftDeleteIdempotent ==
    (InScope /\ repo_type = "SoftDelete") =>
        \A allow_null_filters \in BOOLEAN, filters \in Filters,
           commit1 \in BOOLEAN, commit2 \in BOOLEAN :
            LET first == SoftDeleteRepository_delete(DB, commit1,
                                                     allow_null_filters, filters)
                hit == {r \in view : \E o \in first :
                            o.result # NONE /\ o.result[1].id = r.id}
            IN  (Cardinality(hit) = 1 /\ \A r \in hit : ~r.is_deleted) =>
                    \A o1 \in first :
                        /\ o1.result[1].is_deleted
                        /\ \A o2 \in SoftDeleteRepository_delete(
                                        [store |-> o1.store, view |-> o1.view,
                                         nextId |-> nextId],
                                        commit2, allow_null_filters, filters) :
                              /\ o2.result = NONE
                              /\ o2.view = o1.view
                              /\ o2.store = o1.store

\* A step that is one repository call.
CallStep(op) == ops' = ops + 1 /\ last'.op = op

\* C8: with the soft-delete repository no row ever leaves the table, and a
\* delete that finds a row changes that row's is_deleted (to true) and
\* deleted_at only: its other columns and the other rows stay as they are.
C8_SoftDeleteKeepsRows ==
    [][repo_type = "SoftDelete" =>
         /\ Ids(store) \subseteq Ids(store')
         /\ (CallStep("delete") /\ last'.result # NONE) =>
               \E r \in view :
                   LET d == last'.result[1]
                   IN  /\ d = [r EXCEPT !.is_deleted = TRUE,
                                        !.deleted_at = d.deleted_at]
                       /\ d.deleted_at # NULL
                       /\ view' = (view \ {r}) \cup {d}
                       /\ store' \in {store, view'}]_vars

\* A soft delete has flagged one of two rows of the table.
C8_Witness ==
    /\ repo_type = "SoftDelete"
    /\ last.op = "delete"
    /\ last.result # NONE
    /\ last.result[1] \in view
    /\ Cardinality(view) = 2
    /\ Cardinality(store) = 2

\* C9: read-your-writes: after a create without commit, a get_single on a
\* unique field of the created entity (its id, or its name when no other row
\* has it) in the same scope returns the created entity, and nothing has
\* been committed.
C9_ReadYourWrites ==
    (InScope /\ nextId <= MaxRows) =>
        \A data \in CreateData, allow_null_filters \in BOOLEAN :
            \A o1 \in BaseRepository_create(DB, data, FALSE) :
                LET created == o1.result[1]
                    after == [store |-> o1.store, view |-> o1.view,
                              nextId |-> nextId + 1]
                    unique == {[k \in {"id"} |-> Some(created.id)]}
                        \cup (IF /\ created.name # NULL
                                 /\ \A r \in view : r.name # created.name
                              THEN {[k \in {"name"} |-> created.name]}
                              ELSE {})
                IN  /\ o1.store = store
                    /\ created \notin o1.store
                    /\ \A filters \in unique :
                         \A o2 \in repository_get_single(after, allow_null_filters,
                                                         filters) :
                            o2.result = <<created>> /\ o2.store = store

\* A get_single has returned a row this scope created and nothing committed.
C9_Witness ==
    /\ pc = "body"
    /\ last.op = "get_single"
    /\ last.result # NONE
    /\ last.result[1] \notin store
    /\ last.result[1].id \notin Ids(entry_store)
    /\ store = entry_store

\* C10: an update whose filters match no row returns None, commits nothing
\* and leaves the table and the session's pending state as they are.
C10_UpdateNoMatchIsNoOp ==
    InScope =>
        \A data \in UpdateData, allow_null_filters \in BOOLEAN,
           commit \in BOOLEAN, filters \in Filters :
            \A o \in repository_update(DB, data, allow_null_filters, commit, filters) :
                /\ filter_by(view, o.query) = {} => o.result = NONE
                /\ o.result = NONE => (o.store = store /\ o.view = view)

\* An update has found no row in a scope with uncommitted changes, which
\* are still uncommitted.
C10_Witness ==
    /\ pc = "body"
    /\ last.op = "update"
    /\ last.result = NONE
    /\ view # {}
    /\ view # store

\* C11: the base repository's delete on a matching row: with commit it
\* removes the row and commits the session; without commit it returns the
\* matching row but removes nothing and stages nothing, so the row is
\* still in the table after the scope's exit has committed.
C11_BaseDeleteEffect ==
    /\ []((InScope /\ repo_type = "Base") =>
            \A commit \in BOOLEAN, allow_null_filters \in BOOLEAN,
               filters \in Filters :
                \A o \in BaseRepository_delete(DB, commit, allow_null_filters,
                                               filters) :
                    o.result # NONE =>
                        LET d == o.result[1]
                        IN  /\ d \in view
                            /\ commit => (o.view = view \ {d} /\ o.store = o.view)
                            /\ ~commit => (o.view = view /\ o.store = store))
    /\ [][(/\ repo_type = "Base"
           /\ ScopeExit
           /\ last.op = "delete"
           /\ last.result # NONE
           /\ last.result[1] \in view
           /\ aexit'.calls = <<"commit", "close">>)
             => last.result[1] \in store']_vars

\* A delete without commit has returned a row this scope created, and the
\* row is still pending in the session.
C11_Witness ==
    /\ repo_type = "Base"
    /\ pc = "body"
    /\ last.op = "delete"
    /\ last.result # NONE
    /\ last.result[1] \in view
    /\ last.result[1] \notin store

\* The rows of a list, each once, are exactly the rows of the set.
ListsAll(list, rows) ==
    /\ Len(list) = Cardinality(rows)
    /\ {list[i] : i \in 1..Len(list)} = rows

\* C12 as stated: get_list with no filters returns all the rows, each
\* one's creation timestamp strictly greater than the next one's.
C12_StrictlyDescending ==
    (InScope /\ repo_type = "Base") =>
        \A allow_null_filters \in BOOLEAN :
            \A o \in repository_get_list(DB, allow_null_filters, EmptyDict) :
                /\ ListsAll(o.result, view)
                /\ \A i \in 1..(Len(o.result) - 1) :
                      o.result[i].created_at > o.result[i + 1].created_at

\* C12, amended: get_list with no filters returns all the rows, each one's
\* creation timestamp greater than or equal to the next one's.
C12_Descending ==
    (InScope /\ repo_type = "Base") =>
        \A allow_null_filters \in BOOLEAN :
            \A o \in repository_get_list(DB, allow_null_filters, EmptyDict) :
                /\ ListsAll(o.result, view)
                /\ \A i \in 1..(Len(o.result) - 1) :
                      o.result[i].created_at >= o.result[i + 1].created_at

\* A get_list with no filters has returned two rows of different creation
\* timestamps, the later one first.
C12_Witness ==
    /\ repo_type = "Base"
    /\ last.op = "get_list"
    /\ last.query = EmptyDict
    /\ Len(last.result) = 2
    /\ last.result[1].created_at > last.result[2].created_at

\* A repository whose calls reach a session: on a repository bound to None
\* every call raises before it reaches the store.
Usable(h) == h.session # NoSession

\* C13: get_repository hands out no usable repository outside a scope: every
\* usable repository it returns was made while its UnitOfWork was entered
\* and is bound to a session that was open then, never to a missing or an
\* already closed one.
C13_RepositoryOnlyWhileActive ==
    \A i \in 1..Len(handles) :
        Usable(handles[i]) => (handles[i].active /\ handles[i].at = "open")

\* C14: no session is held by two entered UnitOfWork instances at the same
\* time, and every scope entry takes a session from the factory that no
\* instance held before.
C14_SessionExclusive ==
    /\ [](\A u, v \in UoWs :
            (u # v /\ uows[u].scopes > 0 /\ uows[v].scopes > 0)
                => uows[u].session # uows[v].session)
    /\ [][\A u \in UoWs :
            uows'[u].entries # uows[u].entries =>
                /\ Len(pool') = Len(pool) + 1
                /\ uows'[u].session = Len(pool')
                /\ pool'[uows'[u].session] = NewSession
                /\ \A v \in UoWs : uows[v].session # uows'[u].session]_vars

\* Two instances are entered at the same time and a call has been made
\* through a repository of each.
C14_Witness ==
    /\ \A u \in UoWs : uows[u].scopes > 0
    /\ Len(used) = 2
    /\ handles[used[1]].uow # handles[used[2]].uow
    /\ handles[used[1]].at = "open"
    /\ handles[used[2]].at = "open"

\* The filters whose is_deleted is not given, or given as true or false.
FlagFilters ==
    {f \in Filters : "is_deleted" \in DOMAIN f => f["is_deleted"] # NULL}

\* The is_deleted value a soft-delete query is to select on.
FlagOf(filters) ==
    IF "is_deleted" \in DOMAIN filters THEN filters["is_deleted"][1] ELSE FALSE

\* The rows of the session with this identity.
RowOf(id) == {r \in view : r.id = id}

\* The rows a call returned all had is_deleted = flag when the call read
\* them, and the call changed no row of a different is_deleted.
OnlyFlag(o, flag) ==
    /\ o.query["is_deleted"] = Some(flag)
    /\ \A i \in 1..Len(o.result) :
          \A r \in RowOf(o.result[i].id) : r.is_deleted = flag
    /\ {r \in view : r.is_deleted # flag} \subseteq o.view
    /\ Cardinality(view \ o.view) <= 1

\* C15: the SoftDeleteRepository's get_single, get_list, get_last_entry,
\* get_paginated_list, update and delete select and modify only rows with
\* is_deleted = false when the caller gives no is_deleted filter, and only
\* rows with the caller's is_deleted value when the caller gives one.
C15_ActivePredicate ==
    (InScope /\ repo_type = "SoftDelete") =>
        \A filters \in FlagFilters :
            /\ \A o \in UNION {SoftDeleteRepository_get_last_entry(
                                    DB, order_field, filters) :
                                order_field \in OrderFields} :
                  OnlyFlag(o, FlagOf(filters))
            /\ \A allow_null_filters \in BOOLEAN :
                  \A o \in SoftDeleteRepository_get_single(
                                DB, allow_null_filters, filters)
                        \cup SoftDeleteRepository_get_list(
                                DB, allow_null_filters, filters)
                        \cup SoftDeleteRepository_get_paginated_list(
                                DB, allow_null_filters, filters)
                        \cup UNION {SoftDeleteRepository_update(
                                       DB, data, allow_null_filters, commit,
                                       filters) :
                                    data \in UpdateData, commit \in BOOLEAN}
                        \cup UNION {SoftDeleteRepository_delete(
                                       DB, commit, allow_null_filters, filters) :
                                    commit \in BOOLEAN} :
                      OnlyFlag(o, FlagOf(filters))

\* A soft-delete query given is_deleted = true has returned a soft-deleted
\* row while the table also holds an active one.
C15_Witness ==
    /\ repo_type = "SoftDelete"
    /\ pc = "body"
    /\ last.op \in {"get_single", "get_list", "get_last_entry",
                    "get_paginated_list", "update", "delete"}
    /\ "is_deleted" \in DOMAIN last.query
    /\ last.query["is_deleted"] = Some(TRUE)
    /\ last.result # NONE
    /\ \E r \in view : ~r.is_deleted

\* C16: update and delete of the SoftDeleteRepository called without a
\* commit argument commit at once: the change to the matching row is in the
\* committed table when the call returns, and a later rollback of the scope
\* leaves it there.  Those of the base repository commit nothing.
C16_SoftDeleteCommitsByDefault ==
    /\ [](InScope =>
            \A allow_null_filters \in BOOLEAN, filters \in Filters :
                \A o \in UNION {repository_update(DB, data, allow_null_filters,
                                                  default_commit, filters) :
                                  data \in UpdateData}
                         \cup repository_delete(DB, default_commit,
                                                allow_null_filters, filters) :
                    o.result # NONE =>
                        IF repo_type = "SoftDelete"
                        THEN o.store = o.view /\ o.result[1] \in o.store
                        ELSE o.store = store)
    /\ [][(ScopeExit /\ aexit'.calls = <<"rollback", "close">>)
             => store' = store]_vars

\* A scope of one call, a soft delete, was rolled back, and the table holds
\* the row as deleted.
C16_Witness ==
    /\ repo_type = "SoftDelete"
    /\ pc = "idle"
    /\ aexit.calls = <<"rollback", "close">>
    /\ ops = 1
    /\ \E r \in store :
          /\ r.is_deleted
          /\ r.deleted_at # NULL
          /\ \E q \in entry_store : q.id = r.id /\ ~q.is_deleted

\* The value of the ordering field of row r: the field when the entity has
\* it, the identity when it has not.
OrderValue(r, order_field) ==
    IF order_field \in Columns THEN Col(r, order_field)[1] ELSE r.id

\* C17: get_last_entry constrains its query with the filters as given, a
\* None entry as an equals-null test, and returns a matching row that has
\* the greatest value of the ordering field among the matching rows (of the
\* identity when the entity has no such field), None when no row matches.
C17_LastEntryUncleaned ==
    InScope =>
        \A order_field \in OrderFields, filters \in Filters :
            \A o \in repository_get_last_entry(DB, order_field, filters) :
                LET given == Given(filters)
                    matching == {r \in view :
                                   \A k \in DOMAIN given : Col(r, k) = given[k]}
                IN  /\ o.query = given
                    /\ o.store = store /\ o.view = view
                    /\ matching = {} => o.result = NONE
                    /\ matching # {} =>
                          /\ Len(o.result) = 1
                          /\ o.result[1] \in matching
                          /\ \A q \in matching :
                                OrderValue(q, order_field)
                                    <= OrderValue(o.result[1], order_field)

\* get_last_entry given name = None has returned a row without a name that
\* is older than a named row, which is the last entry once the None is
\* dropped.
C17_Witness ==
    /\ pc = "body"
    /\ last.op = "get_last_entry"
    /\ "name" \in DOMAIN last.query
    /\ last.query["name"] = NULL
    /\ last.result # NONE
    /\ last.result[1].name = NULL
    /\ \E q \in view :
          /\ q.name # NULL
          /\ q.is_deleted = last.result[1].is_deleted
          /\ q.created_at > last.result[1].created_at
          /\ q.id > last.result[1].id

\* The repositories handed out in the scope instance u is in now: made by u
\* while entered, since its latest entry.
InScopeOf(u) ==
    {i \in 1..Len(handles) :
        /\ handles[i].uow = u
        /\ handles[i].active
        /\ handles[i].entry = uows[u].entries}

\* The table as repository j's session sees it once a call through
\* repository i has had outcome o.
SeenAfter(j, i, o) ==
    [store |-> o.store,
     view |-> o.store \cup (IF handles[j].session = handles[i].session
                             THEN o.view \ o.store
                             ELSE pool[handles[j].session].pending),
     nextId |-> nextId + 1]

\* C18: every get_repository call makes a new repository; the repositories
\* made within one scope are all bound to the scope's session, so a row
\* created and flushed through one of them is returned by a read through
\* any of them; and the scope's exit commits or rolls back what was flushed
\* through all of them together.
C18_HandlesShareSession ==
    /\ [](\A u \in UoWs :
            (uows[u].scopes > 0) =>
                \A i \in InScopeOf(u), j \in InScopeOf(u) :
                    /\ handles[i].session = uows[u].session
                    /\ handles[i].session = handles[j].session
                    /\ nextId <= MaxRows =>
                          \A data \in CreateData :
                              \A o1 \in BaseRepository_create(
                                            HandleDB(handles[i]), data, FALSE) :
                                  \A o2 \in repository_get_single(
                                                SeenAfter(j, i, o1), FALSE,
                                                [k \in {"id"} |->
                                                    Some(o1.result[1].id)]) :
                                      /\ o2.result = o1.result
                                      /\ o1.store = store)
    /\ [][/\ last'.op = "get_repository" => Len(handles') = Len(handles) + 1
          /\ \A u \in UoWs :
                uows'[u].scopes < uows[u].scopes =>
                    \A i \in InScopeOf(u) :
                        LET flushed == pool[handles[i].session].pending
                        IN  /\ store' \in {store, store \cup flushed}
                            /\ pool'[handles[i].session].pending
                                   \in {{}, flushed}]_vars

\* A row created through one repository of a scope, not committed, has been
\* returned by a read through another repository of the same scope.
C18_Witness ==
    /\ used = <<1, 2>>
    /\ \E u \in UoWs : uows[u].scopes > 0 /\ InScopeOf(u) = {1, 2}
    /\ last.op = "get_single"
    /\ last.result # NONE
    /\ last.result[1] \notin store

\* The filters that do not name is_deleted, and a filter set with
\* is_deleted = None added to it.
PlainFilters == {f \in Filters : "is_deleted" \notin DOMAIN f}
WithUnsetFlag(filters) == Merge([j \in {"is_deleted"} |-> NULL], filters)

\* C19: a SoftDeleteRepository get_single, get_list, get_paginated_list,
\* update or delete called with is_deleted = None and allow_null_filters
\* false has the results and effects of the same call without is_deleted,
\* and selects no row whose is_deleted is true.
C19_UnsetFlagKeepsDefault ==
    (InScope /\ repo_type = "SoftDelete") =>
        \A filters \in PlainFilters :
            LET unset == WithUnsetFlag(filters)
                same(with, without) ==
                    /\ Visible(with) = Visible(without)
                    /\ \A o \in with : \A i \in 1..Len(o.result) :
                          \A r \in RowOf(o.result[i].id) : ~r.is_deleted
            IN  /\ same(SoftDeleteRepository_get_single(DB, FALSE, unset),
                        SoftDeleteRepository_get_single(DB, FALSE, filters))
                /\ same(SoftDeleteRepository_get_list(DB, FALSE, unset),
                        SoftDeleteRepository_get_list(DB, FALSE, filters))
                /\ same(SoftDeleteRepository_get_paginated_list(DB, FALSE, unset),
                        SoftDeleteRepository_get_paginated_list(DB, FALSE, filters))
                /\ \A commit \in BOOLEAN :
                      /\ same(SoftDeleteRepository_delete(DB, commit, FALSE, unset),
                              SoftDeleteRepository_delete(DB, commit, FALSE, filters))
                      /\ \A data \in UpdateData :
                            same(SoftDeleteRepository_update(DB, data, FALSE,
                                                             commit, unset),
                                 SoftDeleteRepository_update(DB, data, FALSE,
                                                             commit, filters))

\* No scope is entered: every __aenter__ has had its __aexit__.
Quiescent == \A u \in UoWs : uows[u].scopes = 0

\* The calls made on a session are commits or rollbacks each followed by a
\* close: no commit or rollback of an __aexit__ has failed on it (the
\* failing ones end __aexit__ before the close).
EndedInPairs(log) ==
    /\ Len(log) % 2 = 0
    /\ \A i \in 1..Len(log) :
          IF i % 2 = 1 THEN log[i] \in {"commit", "rollback"} ELSE log[i] = "close"

\* C20: once every scope entered has exited, an instance entered again
\* before its first scope exited included, every session the factory made
\* has been committed or rolled back, and closed, exactly once (in runs
\* where no commit or rollback fails).
C20_NoSessionLeak ==
    (Quiescent /\ \A n \in 1..Len(pool) : EndedInPairs(pool[n].log)) =>
        \A n \in 1..Len(pool) :
            pool[n].log \in {<<"commit", "close">>, <<"rollback", "close">>}

====
